---- MODULE Spec2Model ----
(***************************************************************************)
(* Model of the Query helper of juicyllama/typeorm (src/src/typeorm/       *)
(* Query.ts): the CRUD wrappers create / update / remove / purge and the   *)
(* bulk import (CREATE, UPSERT, DELETE, REPOPULATE) with the table         *)
(* copy / truncate / restore sequence.                                     *)
(* The helpers that build ORM arguments are modelled as functions applied  *)
(* to one input: the options normalizer findOptions (class form and free   *)
(* function), the read operations with their option wrappers, and the      *)
(* filter builder buildWhere (findOptions / findOneOptions can be applied  *)
(* a second time to the query the first call left).  SpecRace runs two     *)
(* REPOPULATE calls on the one database, switching at their awaits.        *)
(*                                                                         *)
(* The database is a map from table names to tables; a table is a set of   *)
(* rows with a primary key `id` (auto increment), a unique column `key`    *)
(* (the dedup field), a payload column `val` and a soft-delete mark `del`. *)
(* Every database round trip may fail with a driver fault; a fault leaves  *)
(* the database unchanged.                                                 *)
(* In SpecCrud a single-record operation is a step to each of its awaits   *)
(* (the save, softRemove or remove, then the re-fetch of a create with     *)
(* relations and of an update), and other callers' round trips on the      *)
(* table settle before, between and after them.                            *)
(***************************************************************************)
EXTENDS Integers, Sequences, FiniteSets, TLC

VARIABLES
    tables,     \* the database: table name -> [exists, rows, ai]
    pc,         \* position of the bulk call: the await it is at, or idle / returned / thrown
    mode,       \* import_mode of the bulk call
    data,       \* data of the bulk call
    dedup,      \* dedup_field of the bulk call ("" when not given)
    i,          \* 1-based index of the row the loop is at
    result,     \* the BulkUploadResponse accumulator (def = FALSE: undefined)
    r,          \* the row found by the lookup of the current row
    thrown,     \* what the call threw to its caller (kind "none": nothing)
    caught,     \* what the catch block of REPOPULATE caught (kind "none": nothing)
    inflight,   \* number of database round trips issued and not yet settled
    ormlog,     \* history: the round trips issued and how each one settled
    pre,        \* history: the live table's rows when the bulk call started
    crud,       \* the single-record operation in flight or ended, and what its caller saw
    fn,         \* the last application of a query helper: its arguments and what it gave
    other,      \* the second bulk call in flight, suspended at its await: its own pc .. pre
    before      \* history: the live table's rows before any call started

vars == <<tables, pc, mode, data, dedup, i, result, r, thrown, caught, inflight, ormlog, pre, crud, fn, other, before>>

bulkVars == <<pc, mode, data, dedup, i, result, r, caught, inflight>>

(***************************************************************************)
(* Bounds                                                                  *)
(***************************************************************************)
MaxRows == 2    \* longest bulk input
MaxKey == 2     \* dedup values are 1..MaxKey
MaxId == 2      \* single-record operations stop inserting beyond this id

Keys == 1..MaxKey

(***************************************************************************)
(* Values                                                                  *)
(***************************************************************************)
NoId == -1      \* a payload without the primary key (record[pk] is undefined)

T == "t"
TCopy == "t_COPY"
TDelete == "t_DELETE"
TableNames == {T, TCopy, TDelete}

NoRow == [id |-> NoId, key |-> 0, val |-> 0, del |-> FALSE]

Max(a, b) == IF a >= b THEN a ELSE b

\* Thrown values: an Error object with a message, or a bare string.
\* A message is the sequence of its words.
NoThrow == [kind |-> "none", msg |-> <<>>]
Err(m) == [kind |-> "Error", msg |-> m]
Str(m) == [kind |-> "string", msg |-> m]

DupMsg(k) == <<"Duplicate", "entry", ToString(k)>>
NoTableMsg(t) == <<"Table", t, "doesn't", "exist">>
TableExistsMsg(t) == <<"Table", t, "already", "exists">>

\* What the driver can throw on any round trip, whatever the statement.
DriverFaults == {Err(<<"Connection", "lost">>), Str(<<"Duplicate", "entry", "raw">>)}
Faults == {NoThrow} \cup DriverFaults

\* e instanceof Error ? e.message : String(e)
MessageOf(e) == e.msg

\* e instanceof Error ? e : new Error(String(e))
AsError(e) == IF e.kind = "Error" THEN e ELSE Err(e.msg)

(***************************************************************************)
(* The repository and the database behind it                               *)
(***************************************************************************)
EmptyTable == [exists |-> TRUE, rows |-> {}, ai |-> 1]
AbsentTable == [exists |-> FALSE, rows |-> {}, ai |-> 1]

MaxIdOf(rows) == IF rows = {} THEN 0 ELSE CHOOSE m \in {x.id : x \in rows} : \A x \in rows : x.id <= m

TableOf(rows) == [exists |-> TRUE, rows |-> rows, ai |-> MaxIdOf(rows) + 1]

Fail(tbs, e) == [tables |-> tbs, thrown |-> e, found |-> FALSE, row |-> NoRow]
Done(tbs) == [tables |-> tbs, thrown |-> NoThrow, found |-> FALSE, row |-> NoRow]
Gave(tbs, row) == [tables |-> tbs, thrown |-> NoThrow, found |-> TRUE, row |-> row]

\* repository.save(repository.create(data)): update the row with the payload's
\* primary key when there is one, insert otherwise; `key` is unique.
SaveRes(tbs, rec, fault) ==
    LET t == tbs[T]
        existing == {x \in t.rows : x.id = rec.id}
        clash == {x \in t.rows : x.id # rec.id /\ x.key = rec.key}
        newid == IF rec.id = NoId THEN t.ai ELSE rec.id
        row == [id |-> newid, key |-> rec.key, val |-> rec.val,
                del |-> \E x \in existing : x.del]
    IN  IF fault # NoThrow THEN Fail(tbs, fault)
        ELSE IF ~t.exists THEN Fail(tbs, Err(NoTableMsg(T)))
        ELSE IF clash # {} THEN Fail(tbs, Err(DupMsg(rec.key)))
        ELSE Gave([tbs EXCEPT ![T] = [exists |-> TRUE,
                                      rows |-> (t.rows \ existing) \cup {row},
                                      ai |-> Max(t.ai, newid + 1)]], row)

\* repository.findOne({where: {[field]: value}}): the first row that matches
\* and is not soft-deleted, or null.
FindOneRes(tbs, field, value, fault) ==
    LET t == tbs[T]
        hits == {x \in t.rows : x[field] = value /\ ~x.del}
    IN  IF fault # NoThrow THEN Fail(tbs, fault)
        ELSE IF ~t.exists THEN Fail(tbs, Err(NoTableMsg(T)))
        ELSE IF hits = {} THEN Done(tbs)
        ELSE Gave(tbs, CHOOSE x \in hits : \A y \in hits : x.id <= y.id)

\* repository.createQueryBuilder().insert().values(data).orUpdate(fields, [dedup]):
\* insert, or on a duplicate `key` update the other fields of the payload.
UpsertRes(tbs, rec, fault) ==
    LET t == tbs[T]
        existing == {x \in t.rows : x.key = rec.key}
        old == CHOOSE x \in existing : TRUE
        row == IF existing # {} THEN [old EXCEPT !.val = rec.val]
               ELSE [id |-> t.ai, key |-> rec.key, val |-> rec.val, del |-> FALSE]
    IN  IF fault # NoThrow THEN Fail(tbs, fault)
        ELSE IF ~t.exists THEN Fail(tbs, Err(NoTableMsg(T)))
        ELSE Gave([tbs EXCEPT ![T] = [exists |-> TRUE,
                                      rows |-> (t.rows \ existing) \cup {row},
                                      ai |-> Max(t.ai, row.id + 1)]], row)

\* repository.remove(record): hard delete by primary key.
RemoveRes(tbs, row, fault) ==
    LET t == tbs[T]
    IN  IF fault # NoThrow THEN Fail(tbs, fault)
        ELSE IF ~t.exists THEN Fail(tbs, Err(NoTableMsg(T)))
        ELSE Done([tbs EXCEPT ![T].rows = {x \in t.rows : x.id # row.id}])

\* repository.softRemove(record): mark the row deleted, keep it.
SoftRemoveRes(tbs, row, fault) ==
    LET t == tbs[T]
    IN  IF fault # NoThrow THEN Fail(tbs, fault)
        ELSE IF ~t.exists THEN Fail(tbs, Err(NoTableMsg(T)))
        ELSE Done([tbs EXCEPT ![T].rows =
                    {IF x.id = row.id THEN [x EXCEPT !.del = TRUE] ELSE x : x \in t.rows}])

\* DROP TABLE IF EXISTS name
DropRes(tbs, name, fault) ==
    IF fault # NoThrow THEN Fail(tbs, fault)
    ELSE Done([tbs EXCEPT ![name] = AbsentTable])

\* CREATE TABLE name LIKE t
CreateLikeRes(tbs, name, fault) ==
    IF fault # NoThrow THEN Fail(tbs, fault)
    ELSE IF ~tbs[T].exists THEN Fail(tbs, Err(NoTableMsg(T)))
    ELSE IF tbs[name].exists THEN Fail(tbs, Err(TableExistsMsg(name)))
    ELSE Done([tbs EXCEPT ![name] = EmptyTable])

\* INSERT INTO name SELECT * FROM t
RefillRes(tbs, name, fault) ==
    LET src == tbs[T]
        dst == tbs[name]
    IN  IF fault # NoThrow THEN Fail(tbs, fault)
        ELSE IF ~src.exists THEN Fail(tbs, Err(NoTableMsg(T)))
        ELSE IF ~dst.exists THEN Fail(tbs, Err(NoTableMsg(name)))
        ELSE IF \E x \in src.rows, y \in dst.rows : x.id = y.id \/ x.key = y.key
             THEN Fail(tbs, Err(DupMsg(0)))
        ELSE Done([tbs EXCEPT ![name] = [exists |-> TRUE,
                                         rows |-> dst.rows \cup src.rows,
                                         ai |-> Max(dst.ai, MaxIdOf(src.rows) + 1)]])

\* DELETE FROM t
DeleteAllRes(tbs, fault) ==
    IF fault # NoThrow THEN Fail(tbs, fault)
    ELSE IF ~tbs[T].exists THEN Fail(tbs, Err(NoTableMsg(T)))
    ELSE Done([tbs EXCEPT ![T].rows = {}])

\* ALTER TABLE t AUTO_INCREMENT = 1 (the counter never drops below max(id) + 1)
AlterAiRes(tbs, fault) ==
    IF fault # NoThrow THEN Fail(tbs, fault)
    ELSE IF ~tbs[T].exists THEN Fail(tbs, Err(NoTableMsg(T)))
    ELSE Done([tbs EXCEPT ![T].ai = MaxIdOf(tbs[T].rows) + 1])

\* RENAME TABLE t TO t_DELETE, name TO t (one statement: all or nothing)
RenameRes(tbs, name, fault) ==
    IF fault # NoThrow THEN Fail(tbs, fault)
    ELSE IF ~tbs[T].exists THEN Fail(tbs, Err(NoTableMsg(T)))
    ELSE IF tbs[TDelete].exists THEN Fail(tbs, Err(TableExistsMsg(TDelete)))
    ELSE IF ~tbs[name].exists THEN Fail(tbs, Err(NoTableMsg(name)))
    ELSE Done([tbs EXCEPT ![TDelete] = tbs[T], ![T] = tbs[name], ![name] = AbsentTable])

(***************************************************************************)
(* The history of round trips                                              *)
(***************************************************************************)
CallEv(op, row) == [ev |-> "call", op |-> op, row |-> row, thrown |-> NoThrow]
SettleEv(op, row, e) ==
    [ev |-> IF e = NoThrow THEN "ok" ELSE "err", op |-> op, row |-> row, thrown |-> e]

(***************************************************************************)
(* Single-record operations                                                *)
(***************************************************************************)
\* e.message.startsWith('Duplicate entry'): a test on the characters of the
\* message, which is its words joined by single spaces.
IsDuplicateEntry(m) ==
    LET RECURSIVE Joined(_)
        Joined(ws) == IF ws = <<>> THEN ""
                      ELSE IF Len(ws) = 1 THEN ws[1]
                      ELSE (ws[1] \o " ") \o Joined(Tail(ws))
        message == Joined(m)
        prefix == "Duplicate entry"
    IN  Len(message) >= Len(prefix) /\ SubSeq(message, 1, Len(prefix)) = prefix

\* logCreateError / logUpdateError: warn for a duplicate entry, error otherwise.
LogSeverity(e) == IF IsDuplicateEntry(e.msg) THEN "warn" ELSE "error"

\* `throw e` in the catch block of create and update: what was caught, as it is.
RethrowWrapped(e) == AsError(e)
Rethrow(e) == e

\* !recordId: an absent primary key, and 0, count as missing.
Falsy(id) == id = NoId \/ id = 0

PkMissingMsg == <<"Primary", "key", "id", "missing", "from", "update", "to", T>>
NotFoundMsg(id) == <<"Updated", "record", T, "with", "id", ToString(id), "not", "found">>

Outcome(tbs, e, sev, found, row, log) ==
    [tables |-> tbs, thrown |-> e, sev |-> sev, found |-> found, row |-> row, log |-> log,
     pending |-> FALSE]

\* Query.create, from the settling of its save: on a throw, log and rethrow;
\* without relations the saved entity is the result; with relations the
\* re-fetch by the saved entity's primary key is issued and the call is
\* suspended on it (row: the saved entity).
CreateOp(tbs, payload, rels, f1) ==
    LET s == SaveRes(tbs, payload, f1)
        l1 == <<SettleEv("save", 0, s.thrown)>>
    IN  IF s.thrown # NoThrow
        THEN Outcome(s.tables, Rethrow(s.thrown), LogSeverity(AsError(s.thrown)), FALSE, NoRow, l1)
        ELSE IF ~rels THEN Outcome(s.tables, NoThrow, "none", TRUE, s.row, l1)
        ELSE [Outcome(s.tables, NoThrow, "none", FALSE, s.row, Append(l1, CallEv("findOne", 0)))
                EXCEPT !.pending = TRUE]

\* Query.create, from the settling of its re-fetch: the row found (or null)
\* is the result; on a throw, log and rethrow.
CreateFetch(tbs, id, f2) ==
    LET f == FindOneRes(tbs, "id", id, f2)
        l2 == <<SettleEv("findOne", 0, f.thrown)>>
    IN  IF f.thrown # NoThrow
        THEN Outcome(f.tables, Rethrow(f.thrown), LogSeverity(AsError(f.thrown)), FALSE, NoRow, l2)
        ELSE Outcome(f.tables, NoThrow, "none", f.found, f.row, l2)

\* Query.update, from the settling of its save: on a throw, log and
\* rethrow; otherwise the re-fetch by the payload's primary key is issued
\* and the call is suspended on it.
UpdateOp(tbs, payload, f1) ==
    LET s == SaveRes(tbs, payload, f1)
        l1 == <<SettleEv("save", 0, s.thrown)>>
    IN  IF s.thrown # NoThrow
        THEN Outcome(s.tables, Rethrow(s.thrown), LogSeverity(AsError(s.thrown)), FALSE, NoRow, l1)
        ELSE [Outcome(s.tables, NoThrow, "none", FALSE, NoRow, Append(l1, CallEv("findOne", 0)))
                EXCEPT !.pending = TRUE]

\* Query.update, from the settling of its re-fetch: throw when it found
\* nothing; on any throw, log and rethrow.
UpdateFetch(tbs, recordId, f2) ==
    LET f == FindOneRes(tbs, "id", recordId, f2)
        l2 == <<SettleEv("findOne", 0, f.thrown)>>
        nf == Err(NotFoundMsg(recordId))
    IN  IF f.thrown # NoThrow
        THEN Outcome(f.tables, Rethrow(f.thrown), LogSeverity(AsError(f.thrown)), FALSE, NoRow, l2)
        ELSE IF ~f.found
        THEN Outcome(f.tables, Rethrow(nf), LogSeverity(AsError(nf)), FALSE, NoRow, l2)
        ELSE Outcome(f.tables, NoThrow, "none", TRUE, f.row, l2)

\* Query.remove, from the settling of its softRemove: errors are not caught;
\* the record passed in is the result.
RemoveOp(tbs, row, f1) ==
    LET s == SoftRemoveRes(tbs, row, f1)
    IN  Outcome(s.tables, s.thrown, "none", s.thrown = NoThrow, row,
                <<SettleEv("softRemove", 0, s.thrown)>>)

\* Query.purge, from the settling of its remove: errors are not caught.
PurgeOpSoft(tbs, row, f1) ==
    LET s == SoftRemoveRes(tbs, row, f1)
    IN  Outcome(s.tables, s.thrown, "none", FALSE, NoRow, <<SettleEv("remove", 0, s.thrown)>>)
PurgeOp(tbs, row, f1) ==
    LET s == RemoveRes(tbs, row, f1)
    IN  Outcome(s.tables, s.thrown, "none", FALSE, NoRow, <<SettleEv("remove", 0, s.thrown)>>)

(***************************************************************************)
(* The bulk result accumulator                                             *)
(***************************************************************************)
NoResult ==
    [def |-> FALSE, total |-> 0, processed |-> 0, created |-> 0, updated |-> 0,
     deleted |-> 0, errored |-> 0, errorsDef |-> FALSE, errors |-> <<>>, ids |-> <<>>]

\* The literal each bulk pass starts from; deleteBulkRecords leaves errors undefined.
NewResult(n, withErrors) ==
    [def |-> TRUE, total |-> n, processed |-> 0, created |-> 0, updated |-> 0,
     deleted |-> 0, errored |-> 0, errorsDef |-> withErrors, errors |-> <<>>, ids |-> <<>>]

\* result.ids.push(id); result.created++
RowCreatedNoCount(res, id) == [res EXCEPT !.ids = Append(@, id)]
RowCreated(res, id) == [res EXCEPT !.ids = Append(@, id), !.created = @ + 1]

\* result.updated++ ... result.ids.push(id)
RowUpdatedAsCreated(res, id) == RowCreated(res, id)
RowUpdatedNoId(res, id) == [res EXCEPT !.updated = @ + 1]
RowUpdated(res, id) == [res EXCEPT !.updated = @ + 1, !.ids = Append(@, id)]

\* result.deleted++
RowDeleted(res) == [res EXCEPT !.deleted = @ + 1]

\* the catch block of a row: errored++, errors ??= [], errors.push(message)
RowErroredSilent(res, e) == res
RowErrored(res, e) ==
    [res EXCEPT !.errored = @ + 1, !.errorsDef = TRUE, !.errors = Append(@, MessageOf(e))]

\* result.processed++
RowProcessed(res) == [res EXCEPT !.processed = @ + 1]

(***************************************************************************)
(* Inputs                                                                  *)
(***************************************************************************)
ImportModes == {"CREATE", "UPSERT", "DELETE", "REPOPULATE"}
GivenModes == ImportModes \cup {"MERGE"}           \* "MERGE": not an ImportMode
DedupFields == {"", "key"}                           \* "": no dedup_field given

SeqsUpTo(S, n) == UNION {[1..m -> S] : m \in 0..n}

\* Bulk input rows carry the dedup value and a payload, and no primary key.
BulkRows == {[id |-> NoId, key |-> k, val |-> 1] : k \in Keys}
BulkData == SeqsUpTo(BulkRows, MaxRows)

\* Payloads of the single-record operations.
Payloads == [id : {NoId, 0} \cup (1..MaxId), key : Keys, val : {1}]

StoredRow(k) == [id |-> k, key |-> k, val |-> 0, del |-> FALSE]

\* The databases a call can find: the live table with one or two rows, with or
\* without a snapshot and a renamed table left behind by an earlier call that threw.
InitDbs ==
    {[n \in TableNames |->
        CASE n = T -> TableOf({StoredRow(k) : k \in 1..live})
          [] n = TCopy -> IF copy THEN TableOf({StoredRow(1)}) ELSE AbsentTable
          [] n = TDelete -> IF del THEN TableOf({}) ELSE AbsentTable] :
      live \in {0, 1, 2}, copy \in BOOLEAN, del \in BOOLEAN}

NoFn == [name |-> "none"]

NoCrud == [op |-> "none", payload |-> [id |-> NoId, key |-> 0, val |-> 0], rels |-> FALSE,
           sev |-> "none", found |-> FALSE, row |-> NoRow, await |-> "none"]

\* The databases of the single-record operations: no bulk call ran before.
CrudDbs == {db \in InitDbs : ~db[TCopy].exists /\ ~db[TDelete].exists /\ db[T].rows # {}}

\* A bulk call nobody has made yet.
NotStarted ==
    [pc |-> "idle", mode |-> "CREATE", data |-> <<>>, dedup |-> "", i |-> 1,
     result |-> NoResult, r |-> [found |-> FALSE, row |-> NoRow], thrown |-> NoThrow,
     caught |-> NoThrow, inflight |-> 0, ormlog |-> <<>>, pre |-> {}]

InitWith(dbs) ==
    /\ tables \in dbs
    /\ pc = "idle"
    /\ mode = "CREATE"
    /\ data = <<>>
    /\ dedup = ""
    /\ i = 1
    /\ result = NoResult
    /\ r = [found |-> FALSE, row |-> NoRow]
    /\ thrown = NoThrow
    /\ caught = NoThrow
    /\ inflight = 0
    /\ ormlog = <<>>
    /\ pre = {}
    /\ crud = NoCrud
    /\ fn = NoFn
    /\ other = NotStarted
    /\ before = tables[T].rows

Init == InitWith(InitDbs)

InitCrud == InitWith(CrudDbs)

(***************************************************************************)
(* Query.bulk, one action per awaited round trip                           *)
(***************************************************************************)
DedupMsg == <<"Dedup", "field", "required", "for", "update">>
UnsupportedMsg(m) == <<m, "is", "not", "a", "supported", "import", "mode">>
FailedMsg == <<"Failed", "to", "upsert">>

RowLabels == {"cb_create", "ub_find", "ub_upsert", "db_find", "db_purge"}
TableLabels == {"copy_drop", "copy_create", "copy_refill", "trunc_delete", "trunc_alter",
                "drop_copy", "restore_rename", "restore_drop"}
AwaitLabels == RowLabels \cup TableLabels

\* The statement or repository call each await is on.
StmtOf(l) ==
    CASE l = "copy_drop" -> "DROP t_COPY"
      [] l = "copy_create" -> "CREATE t_COPY"
      [] l = "copy_refill" -> "REFILL t_COPY"
      [] l = "trunc_delete" -> "DELETE FROM t"
      [] l = "trunc_alter" -> "ALTER t"
      [] l = "cb_create" -> "save"
      [] l = "drop_copy" -> "DROP t_COPY"
      [] l = "restore_rename" -> "RENAME"
      [] l = "restore_drop" -> "DROP t_DELETE"
      [] l = "ub_find" -> "findOne"
      [] l = "ub_upsert" -> "upsert"
      [] l = "db_find" -> "findOne"
      [] l = "db_purge" -> "remove"

RowOf(l) == IF l \in RowLabels THEN i ELSE 0

\* `await`: the call does nothing more until the round trip it issued settles.
AwaitingNever == FALSE
Awaiting == inflight > 0

Settled(l) == pc = l /\ inflight > 0

Throws(e) == pc' = "thrown" /\ thrown' = e

\* The call is over: it returned to its caller or threw.
Ended == pc \in {"returned", "thrown"}

\* The end of bulk: no result is an error, otherwise the result is returned.
Finish(res) ==
    IF ~res.def THEN Throws(Err(FailedMsg))
    ELSE pc' = "returned" /\ thrown' = NoThrow

\* After the loop of a pass: REPOPULATE goes on to drop the snapshot.
AfterPass(m, res) ==
    IF m = "REPOPULATE" THEN pc' = "drop_copy" /\ thrown' = thrown
    ELSE Finish(res)

\* The end of a loop iteration: the next row, or the end of the pass.
NextRow(m, label, k, n, res) ==
    /\ result' = res
    /\ i' = k
    /\ IF k > n THEN AfterPass(m, res) ELSE pc' = label /\ thrown' = thrown

\* !dedup_field
MissingDedupNever(f) == FALSE
MissingDedup(f) == f = ""

\* The entry of bulk, up to its first await.
Bulk(m, d, f) ==
    /\ pc = "idle"
    /\ mode' = m
    /\ data' = d
    /\ dedup' = f
    /\ pre' = tables[T].rows
    /\ CASE m = "CREATE" -> NextRow(m, "cb_create", 1, Len(d), NewResult(Len(d), TRUE))
         [] m = "UPSERT" ->
              IF MissingDedup(f) THEN Throws(Err(DedupMsg)) /\ UNCHANGED <<result, i>>
              ELSE NextRow(m, "ub_find", 1, Len(d), NewResult(Len(d), TRUE))
         [] m = "DELETE" ->
              IF MissingDedup(f) THEN Throws(Err(DedupMsg)) /\ UNCHANGED <<result, i>>
              ELSE NextRow(m, "db_find", 1, Len(d), NewResult(Len(d), FALSE))
         [] m = "REPOPULATE" -> pc' = "copy_drop" /\ UNCHANGED <<result, i, thrown>>
         [] OTHER -> Throws(Err(UnsupportedMsg(m))) /\ UNCHANGED <<result, i>>
    /\ UNCHANGED <<tables, r, caught, inflight, ormlog, crud, fn, other, before>>

\* The call issues the round trip it is at.
Issue ==
    /\ pc \in AwaitLabels
    /\ ~Awaiting
    /\ inflight' = inflight + 1
    /\ ormlog' = Append(ormlog, CallEv(StmtOf(pc), RowOf(pc)))
    /\ UNCHANGED <<tables, pc, mode, data, dedup, i, result, r, thrown, caught, pre, crud, fn, other, before>>

\* A statement of copyTable / truncate settles: on an error the call throws
\* (these run outside the try block), otherwise it goes on to `next`.
TableStep(l, res, next) ==
    /\ Settled(l)
    /\ tables' = res.tables
    /\ inflight' = inflight - 1
    /\ ormlog' = Append(ormlog, SettleEv(StmtOf(l), 0, res.thrown))
    /\ IF res.thrown # NoThrow THEN Throws(res.thrown)
       ELSE pc' = next /\ thrown' = thrown
    /\ UNCHANGED <<mode, data, dedup, r, caught, pre, crud, fn, other, before>>

\* copyTable: DROP TABLE IF EXISTS t_COPY
CopyDrop ==
    \E fault \in Faults :
        TableStep("copy_drop", DropRes(tables, TCopy, fault), "copy_create") /\ UNCHANGED <<result, i>>

\* copyTable: CREATE TABLE t_COPY LIKE t
CopyCreate ==
    \E fault \in Faults :
        TableStep("copy_create", CreateLikeRes(tables, TCopy, fault), "copy_refill") /\ UNCHANGED <<result, i>>

\* copyTable: INSERT INTO t_COPY SELECT * FROM t
CopyRefill ==
    \E fault \in Faults :
        TableStep("copy_refill", RefillRes(tables, TCopy, fault), "trunc_delete") /\ UNCHANGED <<result, i>>

\* truncate: DELETE FROM t
TruncDelete ==
    \E fault \in Faults :
        TableStep("trunc_delete", DeleteAllRes(tables, fault), "trunc_alter") /\ UNCHANGED <<result, i>>

\* truncate: ALTER TABLE t AUTO_INCREMENT = 1, then createBulkRecords starts.
TruncAlter ==
    \E fault \in Faults :
        LET res == AlterAiRes(tables, fault)
        IN  /\ Settled("trunc_alter")
            /\ tables' = res.tables
            /\ inflight' = inflight - 1
            /\ ormlog' = Append(ormlog, SettleEv(StmtOf("trunc_alter"), 0, res.thrown))
            /\ IF res.thrown # NoThrow THEN Throws(res.thrown) /\ UNCHANGED <<result, i>>
               ELSE NextRow(mode, "cb_create", 1, Len(data), NewResult(Len(data), TRUE))
            /\ UNCHANGED <<mode, data, dedup, r, caught, pre, crud, fn, other, before>>

\* createBulkRecords, one iteration: create the row; count it created or errored.
CreateRow ==
    /\ Settled("cb_create")
    /\ \E fault \in Faults :
        LET op == CreateOp(tables, data[i], FALSE, fault)
            res == IF op.thrown = NoThrow THEN RowCreated(result, op.row.id)
                   ELSE RowErrored(result, op.thrown)
        IN  /\ tables' = op.tables
            /\ ormlog' = Append(ormlog, SettleEv("save", i, op.thrown))
            /\ NextRow(mode, "cb_create", i + 1, Len(data), RowProcessed(res))
    /\ inflight' = inflight - 1
    /\ UNCHANGED <<mode, data, dedup, r, caught, pre, crud, fn, other, before>>

\* REPOPULATE, in the try block after the pass: drop the snapshot; an error
\* here is caught and starts the restore.
DropCopy ==
    /\ Settled("drop_copy")
    /\ \E fault \in Faults :
        LET res == DropRes(tables, TCopy, fault)
        IN  /\ tables' = res.tables
            /\ ormlog' = Append(ormlog, SettleEv(StmtOf("drop_copy"), 0, res.thrown))
            /\ IF res.thrown # NoThrow
               THEN pc' = "restore_rename" /\ caught' = AsError(res.thrown) /\ thrown' = thrown
               ELSE Finish(result) /\ caught' = caught
    /\ inflight' = inflight - 1
    /\ UNCHANGED <<mode, data, dedup, i, result, r, pre, crud, fn, other, before>>

\* restoreTable: RENAME TABLE t TO t_DELETE, t_COPY TO t
RestoreRename ==
    \E fault \in Faults :
        TableStep("restore_rename", RenameRes(tables, TCopy, fault), "restore_drop") /\ UNCHANGED <<result, i>>

\* restoreTable: DROP TABLE IF EXISTS t_DELETE, then the end of bulk.
RestoreDrop ==
    /\ Settled("restore_drop")
    /\ \E fault \in Faults :
        LET res == DropRes(tables, TDelete, fault)
        IN  /\ tables' = res.tables
            /\ ormlog' = Append(ormlog, SettleEv(StmtOf("restore_drop"), 0, res.thrown))
            /\ IF res.thrown # NoThrow THEN Throws(res.thrown) ELSE Finish(result)
    /\ inflight' = inflight - 1
    /\ UNCHANGED <<mode, data, dedup, i, result, r, caught, pre, crud, fn, other, before>>

\* upsertBulkRecords, first half of an iteration: look the row up by the dedup field.
UpsertFind ==
    /\ Settled("ub_find")
    /\ \E fault \in Faults :
        LET res == FindOneRes(tables, dedup, data[i][dedup], fault)
        IN  /\ ormlog' = Append(ormlog, SettleEv("findOne", i, res.thrown))
            /\ IF res.thrown # NoThrow
               THEN /\ NextRow(mode, "ub_find", i + 1, Len(data),
                               RowProcessed(RowErrored(result, res.thrown)))
                    /\ r' = r
               ELSE /\ pc' = "ub_upsert"
                    /\ r' = [found |-> res.found, row |-> res.row]
                    /\ UNCHANGED <<result, i, thrown>>
    /\ inflight' = inflight - 1
    /\ UNCHANGED <<tables, mode, data, dedup, caught, pre, crud, fn, other, before>>

\* upsertBulkRecords, second half: upsert; count updated when the lookup found
\* a row and created otherwise.
UpsertExec ==
    /\ Settled("ub_upsert")
    /\ \E fault \in Faults :
        LET res == UpsertRes(tables, data[i], fault)
            acc == IF res.thrown # NoThrow THEN RowErrored(result, res.thrown)
                   ELSE IF r.found THEN RowUpdated(result, res.row.id)
                   ELSE RowCreated(result, res.row.id)
        IN  /\ tables' = res.tables
            /\ ormlog' = Append(ormlog, SettleEv("upsert", i, res.thrown))
            /\ NextRow(mode, "ub_find", i + 1, Len(data), RowProcessed(acc))
    /\ inflight' = inflight - 1
    /\ UNCHANGED <<mode, data, dedup, r, caught, pre, crud, fn, other, before>>

\* deleteBulkRecords, first half of an iteration: look the row up; nothing
\* found ends the iteration.
DeleteFind ==
    /\ Settled("db_find")
    /\ \E fault \in Faults :
        LET res == FindOneRes(tables, dedup, data[i][dedup], fault)
        IN  /\ ormlog' = Append(ormlog, SettleEv("findOne", i, res.thrown))
            /\ IF res.thrown # NoThrow
               THEN /\ NextRow(mode, "db_find", i + 1, Len(data),
                               RowProcessed(RowErrored(result, res.thrown)))
                    /\ r' = r
               ELSE IF ~res.found
               THEN /\ NextRow(mode, "db_find", i + 1, Len(data), RowProcessed(result))
                    /\ r' = [found |-> FALSE, row |-> NoRow]
               ELSE /\ pc' = "db_purge"
                    /\ r' = [found |-> TRUE, row |-> res.row]
                    /\ UNCHANGED <<result, i, thrown>>
    /\ inflight' = inflight - 1
    /\ UNCHANGED <<tables, mode, data, dedup, caught, pre, crud, fn, other, before>>

\* deleteBulkRecords, second half: purge the row that was found.
DeletePurge ==
    /\ Settled("db_purge")
    /\ \E fault \in Faults :
        LET op == PurgeOp(tables, r.row, fault)
            acc == IF op.thrown # NoThrow THEN RowErrored(result, op.thrown)
                   ELSE RowDeleted(result)
        IN  /\ tables' = op.tables
            /\ ormlog' = Append(ormlog, SettleEv("remove", i, op.thrown))
            /\ NextRow(mode, "db_find", i + 1, Len(data), RowProcessed(acc))
    /\ inflight' = inflight - 1
    /\ UNCHANGED <<mode, data, dedup, r, caught, pre, crud, fn, other, before>>

Next ==
    \/ \E m \in GivenModes, d \in BulkData, f \in DedupFields : Bulk(m, d, f)
    \/ Issue
    \/ CopyDrop
    \/ CopyCreate
    \/ CopyRefill
    \/ TruncDelete
    \/ TruncAlter
    \/ CreateRow
    \/ DropCopy
    \/ RestoreRename
    \/ RestoreDrop
    \/ UpsertFind
    \/ UpsertExec
    \/ DeleteFind
    \/ DeletePurge

Spec == Init /\ [][Next]_vars

(***************************************************************************)
(* Two bulk REPOPULATE calls on the same repository                        *)
(*                                                                         *)
(* Nothing in bulk, copyTable, truncate or restoreTable takes a lock: a    *)
(* second call can run while the first one is suspended at an await.  The  *)
(* variables pc .. pre are the call that is running; `other` is the one    *)
(* that is suspended.                                                      *)
(***************************************************************************)
MaxRaceRows == 1    \* longest input of each of the two calls

RaceData == {d \in BulkData : Len(d) <= MaxRaceRows}

\* The running call is suspended at its await (or has ended) and the other
\* call gets the thread.
Switch ==
    /\ Awaiting \/ Ended
    /\ other' = [pc |-> pc, mode |-> mode, data |-> data, dedup |-> dedup, i |-> i,
                 result |-> result, r |-> r, thrown |-> thrown, caught |-> caught,
                 inflight |-> inflight, ormlog |-> ormlog, pre |-> pre]
    /\ pc' = other.pc
    /\ mode' = other.mode
    /\ data' = other.data
    /\ dedup' = other.dedup
    /\ i' = other.i
    /\ result' = other.result
    /\ r' = other.r
    /\ thrown' = other.thrown
    /\ caught' = other.caught
    /\ inflight' = other.inflight
    /\ ormlog' = other.ormlog
    /\ pre' = other.pre
    /\ UNCHANGED <<tables, crud, fn, before>>

RaceNext ==
    \/ \E d \in RaceData : Bulk("REPOPULATE", d, "")
    \/ Issue
    \/ CopyDrop
    \/ CopyCreate
    \/ CopyRefill
    \/ TruncDelete
    \/ TruncAlter
    \/ CreateRow
    \/ DropCopy
    \/ RestoreRename
    \/ RestoreDrop
    \/ Switch

SpecRace == InitCrud /\ [][RaceNext]_vars

(***************************************************************************)
(* The single-record operations as calls of their own                      *)
(***************************************************************************)
\* A single-record operation is called and runs to its first await: the
\* round trip `stmt` is issued.  `await` is the await the call is suspended
\* at: "first", "refetch", or "none" when no call is in flight.  The caller
\* makes one call at a time.
Called(name, payload, rels, row, stmt) ==
    /\ pc = "idle"
    /\ crud.await = "none"
    /\ thrown' = NoThrow
    /\ ormlog' = <<CallEv(stmt, 0)>>
    /\ crud' = [op |-> name, payload |-> payload, rels |-> rels, sev |-> "none",
                found |-> FALSE, row |-> row, await |-> "first"]
    /\ UNCHANGED <<tables, bulkVars, pre, fn, other, before>>

Create(payload, rels) ==
    /\ payload.id # 0
    /\ Called("create", payload, rels, NoRow, "save")

\* update throws before any await when the payload has no primary key.
Update(payload) ==
    IF Falsy(payload.id)
    THEN /\ pc = "idle"
         /\ crud.await = "none"
         /\ thrown' = Err(PkMissingMsg)
         /\ ormlog' = <<>>
         /\ crud' = [op |-> "update", payload |-> payload, rels |-> FALSE, sev |-> "none",
                     found |-> FALSE, row |-> NoRow, await |-> "none"]
         /\ UNCHANGED <<tables, bulkVars, pre, fn, other, before>>
    ELSE Called("update", payload, FALSE, NoRow, "save")

Remove(row) ==
    Called("remove", [id |-> row.id, key |-> row.key, val |-> row.val], FALSE, row, "softRemove")

Purge(row) ==
    Called("purge", [id |-> row.id, key |-> row.key, val |-> row.val], FALSE, row, "remove")

\* The ids of the model are 1..MaxId: a save or an upsert that would insert
\* under a fresh id waits while none is left.
IdsLeft(tbs, rec, byKey) ==
    LET t == tbs[T]
        fresh == IF byKey THEN \A x \in t.rows : x.key # rec.key
                 ELSE rec.id = NoId /\ \A x \in t.rows : x.key # rec.key
    IN  (t.exists /\ fresh) => t.ai <= MaxId

\* The first round trip of the call in flight settles: the call ends, or
\* goes on to its re-fetch.
FirstSettles(f1) ==
    /\ crud.await = "first"
    /\ f1 = NoThrow /\ crud.op \in {"create", "update"} => IdsLeft(tables, crud.payload, FALSE)
    /\ LET op == CASE crud.op = "create" -> CreateOp(tables, crud.payload, crud.rels, f1)
                   [] crud.op = "update" -> UpdateOp(tables, crud.payload, f1)
                   [] crud.op = "remove" -> RemoveOp(tables, crud.row, f1)
                   [] crud.op = "purge" -> PurgeOp(tables, crud.row, f1)
       IN  /\ tables' = op.tables
           /\ thrown' = op.thrown
           /\ ormlog' = ormlog \o op.log
           /\ crud' = [crud EXCEPT !.sev = op.sev, !.found = op.found, !.row = op.row,
                                   !.await = IF op.pending THEN "refetch" ELSE "none"]
    /\ UNCHANGED <<bulkVars, pre, fn, other, before>>

\* The re-fetch of the suspended create or update settles and the call ends.
Refetch(f2) ==
    /\ crud.await = "refetch"
    /\ LET op == IF crud.op = "create" THEN CreateFetch(tables, crud.row.id, f2)
                 ELSE UpdateFetch(tables, crud.payload.id, f2)
       IN  /\ tables' = op.tables
           /\ thrown' = op.thrown
           /\ ormlog' = ormlog \o op.log
           /\ crud' = [crud EXCEPT !.sev = op.sev, !.found = op.found, !.row = op.row,
                                   !.await = "none"]
    /\ UNCHANGED <<bulkVars, pre, fn, other, before>>

\* Other callers use the same table: whether the tracked call is suspended
\* at an await or none is in flight, a round trip of another caller's call
\* settles, on any row: the save of a create or an update, the softRemove of
\* a remove, the remove of a purge, the statement of an upsert, either
\* statement of a truncate, a dropTable of the table.  What those callers
\* get back is not recorded.  (The statements of copyTable and restoreTable,
\* which involve the snapshot tables, are steps of Spec and SpecRace.)
Meanwhile ==
    /\ pc = "idle"
    /\ \/ \E p \in Payloads :
            /\ p.id # 0
            /\ IdsLeft(tables, p, FALSE)
            /\ tables' = SaveRes(tables, p, NoThrow).tables
       \/ \E row \in tables[T].rows : tables' = SoftRemoveRes(tables, row, NoThrow).tables
       \/ \E row \in tables[T].rows : tables' = RemoveRes(tables, row, NoThrow).tables
       \/ \E p \in Payloads :
            /\ p.id = NoId
            /\ IdsLeft(tables, p, TRUE)
            /\ tables' = UpsertRes(tables, p, NoThrow).tables
       \/ tables' = DeleteAllRes(tables, NoThrow).tables
       \/ tables' = AlterAiRes(tables, NoThrow).tables
       \/ tables' = DropRes(tables, T, NoThrow).tables
    /\ UNCHANGED <<bulkVars, thrown, ormlog, pre, crud, fn, other, before>>

CrudNext ==
    \/ \E p \in Payloads, rels \in BOOLEAN : Create(p, rels)
    \/ \E p \in Payloads : Update(p)
    \/ \E row \in tables[T].rows : Remove(row)
    \/ \E row \in tables[T].rows : Purge(row)
    \/ \E f1 \in Faults : FirstSettles(f1)
    \/ \E f2 \in Faults : Refetch(f2)
    \/ Meanwhile

SpecCrud == InitCrud /\ [][CrudNext]_vars

(***************************************************************************)
(* Reading the history                                                     *)
(***************************************************************************)
LogIdx == 1..Len(ormlog)

IsRowErr(e) == e.ev = "err" /\ e.row > 0
RowErrs == SelectSeq(ormlog, IsRowErr)
RowErrMsgs == [n \in 1..Len(RowErrs) |-> RowErrs[n].thrown.msg]

\* The rows of the input with a round trip that threw / with this call settled well.
FailedRows == {ormlog[n].row : n \in {m \in LogIdx : IsRowErr(ormlog[m])}}
RowsOk(op) == {ormlog[n].row : n \in {m \in LogIdx : ormlog[m].ev = "ok" /\ ormlog[m].op = op /\ ormlog[m].row > 0}}
RowsCalled(op) == {ormlog[n].row : n \in {m \in LogIdx : ormlog[m].ev = "call" /\ ormlog[m].op = op /\ ormlog[m].row > 0}}

\* Positions of the calls of a statement.
CallsOf(op) == {n \in LogIdx : ormlog[n].ev = "call" /\ ormlog[n].op = op}
OkOf(op) == {n \in LogIdx : ormlog[n].ev = "ok" /\ ormlog[n].op = op}

Range(s) == {s[n] : n \in 1..Len(s)}

\* The snapshot copy completed at or before position n of the history.
SnapshotTaken(n) == \E m \in 1..n : ormlog[m].ev = "ok" /\ ormlog[m].op = "REFILL t_COPY"

\* A row's insert failed, or a step after the snapshot was taken threw.
FailedMidWay == \E n \in LogIdx : ormlog[n].ev = "err" /\ SnapshotTaken(n)

(***************************************************************************)
(* C1: when a bulk REPOPULATE fails mid-way (a row's insert fails, or a    *)
(* step after the snapshot was taken throws), the live table holds at the  *)
(* end of the call exactly the rows it held before the call.               *)
(* The code does not do this: the statement is violated.                   *)
(***************************************************************************)
C1_RepopulateFailureRestores ==
    (mode = "REPOPULATE" /\ Ended /\ FailedMidWay)
        => tables[T].exists /\ tables[T].rows = pre

(***************************************************************************)
(* C2: in every bulk mode a failing row never ends the pass: the failure   *)
(* is counted in errored, its message is appended to errors, the loop goes *)
(* on to the next row, and once the loop is left processed = total = N.    *)
(***************************************************************************)
C2_FailingRowNeverEndsPass ==
    result.def =>
        /\ result.total = Len(data)
        /\ result.processed = i - 1
        /\ result.errored = Len(RowErrs)
        /\ result.errors = RowErrMsgs
        /\ FailedRows \subseteq 1..result.processed
        /\ (pc \notin RowLabels => result.processed = result.total)

C2_Witness ==
    /\ pc = "returned"
    /\ Len(data) = 2
    /\ FailedRows = {1}
    /\ result.processed = 2
    /\ result.errored = 1

(***************************************************************************)
(* C3: bulk CREATE over N rows returns total = N, errored = the number of  *)
(* failing rows (at least 1 when a row fails), created = N - errored, and  *)
(* the message of every failing row is in errors.                          *)
(***************************************************************************)
C3_BulkCreateCounts ==
    (mode = "CREATE" /\ pc = "returned") =>
        /\ result.total = Len(data)
        /\ result.errored = Cardinality(FailedRows)
        /\ (FailedRows # {} => result.errored >= 1)
        /\ result.created = Len(data) - result.errored
        /\ result.created = Cardinality(RowsOk("save"))
        /\ \A n \in LogIdx : IsRowErr(ormlog[n]) => ormlog[n].thrown.msg \in Range(result.errors)

C3_Witness ==
    /\ mode = "CREATE"
    /\ pc = "returned"
    /\ Len(data) = 2
    /\ result.errored = 1
    /\ result.created = 1
    /\ DupMsg(data[2].key) \in Range(result.errors)

(***************************************************************************)
(* C4: bulk REPOPULATE issues its statements in this order: drop the old   *)
(* snapshot, create the snapshot, fill it from the live table, delete the  *)
(* live rows (never before the snapshot copy completed), then insert the   *)
(* input rows; if the bulk-create step fails the tables are renamed and    *)
(* the renamed failed table is dropped, and if it succeeds the snapshot is *)
(* dropped.                                                                *)
(* The code drops the snapshot after a failed bulk-create as well: the     *)
(* statement is violated.                                                  *)
(***************************************************************************)
IsCall(e) == e.ev = "call"
Calls == SelectSeq(ormlog, IsCall)

RepopulateHead == <<"DROP t_COPY", "CREATE t_COPY", "REFILL t_COPY", "DELETE FROM t", "ALTER t">>

C4_RepopulateOrder ==
    mode = "REPOPULATE" =>
        /\ \A n \in 1..Len(Calls) :
            /\ n <= Len(RepopulateHead) => Calls[n].op = RepopulateHead[n]
            /\ (n > Len(RepopulateHead) /\ n <= Len(RepopulateHead) + Len(data))
                   => Calls[n].op = "save" /\ Calls[n].row = n - Len(RepopulateHead)
        /\ \A n \in CallsOf("DELETE FROM t") : SnapshotTaken(n)
        /\ (Ended /\ result.def) =>
                IF result.errored > 0
                THEN /\ CallsOf("RENAME") # {}
                     /\ Cardinality(CallsOf("DROP t_COPY")) = 1
                     /\ (OkOf("RENAME") # {} => CallsOf("DROP t_DELETE") # {})
                ELSE Cardinality(CallsOf("DROP t_COPY")) = 2

(***************************************************************************)
(* C5: within one bulk call at most one database round trip is outstanding *)
(* at any moment, and rows are processed one at a time in input order: a   *)
(* round trip is issued only after the one before it settled, and never    *)
(* for an earlier row than the one before it.                              *)
(***************************************************************************)
C5_OneRoundTripAtATime ==
    /\ inflight <= 1
    /\ \A n \in LogIdx :
        (n > 1 /\ ormlog[n].ev = "call") => ormlog[n - 1].ev \in {"ok", "err"}
    /\ \A a, b \in LogIdx :
        (a < b /\ ormlog[a].row > 0 /\ ormlog[b].row > 0) => ormlog[a].row <= ormlog[b].row
    /\ \A n \in LogIdx : ormlog[n].row > 0 => ormlog[n].row <= Len(data)

C5_Witness ==
    /\ mode = "UPSERT"
    /\ pc = "ub_upsert"
    /\ i = 2
    /\ inflight = 1
    /\ RowsOk("upsert") = {1}

(***************************************************************************)
(* C6: a bulk call in UPSERT or DELETE mode without a dedup field, and a   *)
(* bulk call with an unsupported import mode, throws before any row is     *)
(* processed and before any database operation is issued; the table is     *)
(* unchanged.                                                              *)
(***************************************************************************)
Misconfigured == (mode \in {"UPSERT", "DELETE"} /\ dedup = "") \/ mode \notin ImportModes

C6_ConfigurationErrorsAreFatal ==
    (pc # "idle" /\ Misconfigured) =>
        /\ pc = "thrown"
        /\ thrown = IF mode \in ImportModes THEN Err(DedupMsg) ELSE Err(UnsupportedMsg(mode))
        /\ ormlog = <<>>
        /\ inflight = 0
        /\ ~result.def
        /\ tables[T].exists /\ tables[T].rows = pre

C6_Witness ==
    /\ pc = "thrown"
    /\ mode = "DELETE"
    /\ dedup = ""
    /\ Len(data) = 2
    /\ thrown = Err(DedupMsg)

(***************************************************************************)
(* C7: in bulk UPSERT each row is looked up by its dedup value and then    *)
(* upserted; a row that succeeds counts as updated when its dedup value    *)
(* was in the table at lookup time and as created otherwise, so created is *)
(* the number of distinct new dedup values among the rows that succeeded   *)
(* (a value introduced by an earlier row of the input is no longer new),   *)
(* and a pass without errors ends with created + updated = total.          *)
(***************************************************************************)
PreKeys == {x.key : x \in pre}
KeysOf(rows) == {data[k].key : k \in rows}

C7_UpsertCreatedOrUpdated ==
    (mode = "UPSERT" /\ result.def) =>
        /\ RowsCalled("upsert") \subseteq RowsOk("findOne")
        /\ result.created = Cardinality(KeysOf(RowsOk("upsert")) \ PreKeys)
        /\ result.created + result.updated = Cardinality(RowsOk("upsert"))
        /\ (pc = "returned" /\ result.errored = 0) =>
                /\ result.created + result.updated = result.total
                /\ result.created = Cardinality(KeysOf(1..Len(data)) \ PreKeys)

C7_Witness ==
    /\ mode = "UPSERT"
    /\ pc = "returned"
    /\ result.errored = 0
    /\ Len(data) = 2
    /\ data[1].key = data[2].key
    /\ data[1].key \notin PreKeys
    /\ result.created = 1
    /\ result.updated = 1

(***************************************************************************)
(* C8: in bulk DELETE each input row is looked up by its dedup value and   *)
(* the matching live row is hard-deleted only if found.                    *)
(* As claimed: deleted equals the number of input rows for which a match   *)
(* existed at lookup time.  Violated: a matched row whose purge throws is  *)
(* counted as errored, not as deleted.                                     *)
(***************************************************************************)
\* The rows whose lookup settled and for which the table held a match then.
MatchedRows ==
    {k \in RowsOk("findOne") :
        /\ data[k].key \in PreKeys
        /\ ~\E j \in RowsOk("remove") : j < k /\ data[j].key = data[k].key}

C8_DeletedEqualsMatched ==
    (mode = "DELETE" /\ pc = "returned") => result.deleted = Cardinality(MatchedRows)

(***************************************************************************)
(* C8, amended: deleted equals the number of input rows for which a match  *)
(* existed at lookup time and whose purge did not throw (a purge that      *)
(* throws counts the row as errored); an input row with no match issues no *)
(* delete and is counted neither as deleted nor as errored; the live table *)
(* loses exactly the rows that were purged, so no live row whose dedup     *)
(* value is absent from the input is removed.                              *)
(***************************************************************************)
C8_BulkDeleteFrame ==
    (mode = "DELETE" /\ result.def) =>
        /\ RowsCalled("remove") \subseteq MatchedRows
        /\ result.deleted = Cardinality(RowsOk("remove"))
        /\ tables[T].rows = {x \in pre : x.key \notin KeysOf(RowsOk("remove"))}
        /\ \A x \in pre : x.key \notin KeysOf(1..Len(data)) => x \in tables[T].rows
        /\ pc = "returned" =>
            /\ RowsCalled("remove") = MatchedRows
            /\ result.deleted = Cardinality(MatchedRows \ FailedRows)
            /\ result.errored = Cardinality(FailedRows)
            /\ result.deleted + result.errored
                 = Len(data) - Cardinality(RowsOk("findOne") \ MatchedRows)

C8_Witness ==
    /\ mode = "DELETE"
    /\ pc = "returned"
    /\ Len(data) = 2
    /\ data[1].key = data[2].key
    /\ result.deleted = 1
    /\ result.errored = 0
    /\ Cardinality(pre) = 2
    /\ Cardinality(tables[T].rows) = 1

(***************************************************************************)
(* C9: update requires the primary key to be present in the payload: a     *)
(* payload that carries no primary-key value fails with an error, without  *)
(* a save or a find; a payload that carries one is saved and then          *)
(* re-fetched by that key, and the update fails if the re-fetch finds      *)
(* nothing.                                                                *)
(* The code does not do this: the test is `!recordId`, so a payload whose  *)
(* primary key is 0 carries a value and is rejected as missing, unsaved.   *)
(***************************************************************************)
\* An update that has ended.
Updated == crud.op = "update" /\ crud.await = "none"

\* What update does once the primary key is accepted.
SavedThenRefetched ==
    /\ Len(ormlog) >= 2
    /\ ormlog[1] = CallEv("save", 0)
    /\ ormlog[2].op = "save"
    /\ ormlog[2].ev = "ok" =>
        /\ Len(ormlog) = 4
        /\ ormlog[3] = CallEv("findOne", 0)
        /\ ormlog[4].op = "findOne"
        /\ ormlog[4].ev = "ok" =>
            \/ thrown = NoThrow /\ crud.found /\ crud.row.id = crud.payload.id
            \/ thrown = Err(NotFoundMsg(crud.payload.id)) /\ ~crud.found

RejectedUnsaved ==
    /\ thrown = Err(PkMissingMsg)
    /\ ormlog = <<>>

C9_UpdateSavesWhenKeyPresent ==
    Updated => IF crud.payload.id = NoId THEN RejectedUnsaved ELSE SavedThenRefetched

(***************************************************************************)
(* C10: when the repository call of create or update throws, the caller    *)
(* receives what was thrown, unmodified, for a duplicate-key error and for *)
(* any other alike; a duplicate-key error only lowers the log severity to  *)
(* warn.                                                                   *)
(***************************************************************************)
LastEv == ormlog[Len(ormlog)]

C10_OrmErrorRethrownUnmodified ==
    (crud.op \in {"create", "update"} /\ Len(ormlog) > 0 /\ LastEv.ev = "err") =>
        /\ thrown = LastEv.thrown
        /\ crud.sev = IF /\ Len(LastEv.thrown.msg) >= 2
                         /\ LastEv.thrown.msg[1] = "Duplicate"
                         /\ LastEv.thrown.msg[2] = "entry"
                      THEN "warn" ELSE "error"

C10_Witness ==
    /\ crud.op = "update"
    /\ Len(ormlog) > 0
    /\ LastEv.ev = "err"
    /\ LastEv.op = "save"
    /\ thrown = Err(DupMsg(crud.payload.key))
    /\ crud.sev = "warn"

(***************************************************************************)
(* The options normalizer: Query.findOptions (the class form) and the free *)
(* function findOptions of TypeOrm.ts                                      *)
(***************************************************************************)
MaxLimit == 2   \* limits and offsets are 0..MaxLimit
MaxSel == 3     \* longest select list

DefaultTake == 20
DefaultSkip == 0
FreeDefaultTake == 20
FreeDefaultSkip == 0

\* An optional value: <<>> is undefined, <<v>> is the value v.
Nothing == <<>>
Some(v) == <<v>>
\* o ?? d
OrElse(o, d) == IF o = Nothing THEN d ELSE o[1]

\* The columns and relations the repository's metadata declares.
Columns == {"id", "key", "val"}
RelationList == <<"owner">>
RelationNames == {RelationList[k] : k \in 1..Len(RelationList)}

\* query.select and query.relations: undefined, a string (kept as its
\* comma-separated parts: "id,zz" is <<"id", "zz">>, "" is <<"">>) or an array.
Undef == [t |-> "undef", parts |-> <<>>]
StrOf(parts) == [t |-> "str", parts |-> parts]
ArrOf(parts) == [t |-> "arr", parts |-> parts]
Truthy(f) == f.t = "arr" \/ (f.t = "str" /\ f.parts # <<"">>)

\* query.select.split(',') / query.relations.split(','): an array has no split.
SplitMsg(field) == <<("query." \o field) \o ".split", "is", "not", "a", "function">>
Split(f) == ArrOf(f.parts)

\* typeof f === 'string' ? f.split(',') : f, under `if (f)`
ListOf(f) == IF Truthy(f) THEN (IF f.t = "str" THEN Split(f) ELSE f) ELSE Undef

TruthyStr(o) == o # Nothing /\ o[1] # ""

OrderOf(q, fallback) ==
    IF TruthyStr(q.order_by)
    THEN [col |-> q.order_by[1], dir |-> OrElse(q.order_by_type, "ASC")]
    ELSE [col |-> OrElse(fallback, "created_at"), dir |-> "DESC"]

FreeOrderOf(q, default_sort) ==
    IF TruthyStr(q.order_by)
    THEN [col |-> q.order_by[1], dir |-> OrElse(q.order_by_type, "ASC")]
    ELSE [col |-> default_sort, dir |-> "ASC"]

TakeOfFixed(q) == DefaultTake

TakeOf(q) == OrElse(q.limit, DefaultTake)

\* Query.findOptions: the query is read, never written; omitBy(isNil) leaves
\* out select and relations when they are undefined.
findOptions(q, where, fallback) ==
    [thrown |-> NoThrow,
     query |-> q,
     options |-> Some([take |-> TakeOf(q), skip |-> OrElse(q.offset, DefaultSkip), order |-> OrderOf(q, fallback),
                       select |-> ListOf(q.select), relations |-> ListOf(q.relations),
                       where |-> where])]

\* The free function findOptions: it writes the split lists back into the
\* query, and throws on a truthy select or relations that is not a string.
FreeMutated(q) ==
    LET q1 == IF Truthy(q.select) /\ q.select.t = "str"
              THEN [q EXCEPT !.select = Split(q.select)] ELSE q
        selThrows == Truthy(q.select) /\ q.select.t # "str"
        q2 == IF ~selThrows /\ Truthy(q1.relations) /\ q1.relations.t = "str"
              THEN [q1 EXCEPT !.relations = Split(q1.relations)] ELSE q1
        relThrows == ~selThrows /\ Truthy(q1.relations) /\ q1.relations.t # "str"
    IN  [query |-> q2,
         thrown |-> IF selThrows THEN Err(SplitMsg("select"))
                    ELSE IF relThrows THEN Err(SplitMsg("relations"))
                    ELSE NoThrow]

FreeFindOptions(q, where, default_sort) ==
    LET m == FreeMutated(q)
    IN  [thrown |-> m.thrown,
         query |-> m.query,
         options |-> IF m.thrown # NoThrow THEN Nothing
                     ELSE Some([take |-> OrElse(m.query.limit, FreeDefaultTake),
                                skip |-> OrElse(m.query.offset, FreeDefaultSkip),
                                order |-> FreeOrderOf(m.query, default_sort),
                                select |-> m.query.select, relations |-> m.query.relations,
                                where |-> where])]

\* Query.findOneOptions: where, relations and select only; the query is read,
\* never written.
findOneOptions(q, where) ==
    [thrown |-> NoThrow,
     query |-> q,
     options |-> Some([where |-> where, relations |-> ListOf(q.relations),
                       select |-> ListOf(q.select)])]

\* The free function findOneOptions: the same writes into the query as the
\* free findOptions.
FreeFindOneOptions(q, where) ==
    LET m == FreeMutated(q)
    IN  [thrown |-> m.thrown,
         query |-> m.query,
         options |-> IF m.thrown # NoThrow THEN Nothing
                     ELSE Some([select |-> m.query.select, relations |-> m.query.relations,
                                where |-> where])]

\* The queries a controller hands over.
Queries ==
    [select : {Undef, StrOf(<<"">>), StrOf(<<"id">>), StrOf(<<"id", "zz">>), ArrOf(<<"id", "zz">>)},
     relations : {Undef, StrOf(<<"owner">>), ArrOf(<<"owner">>)},
     limit : {Nothing} \cup {Some(n) : n \in 0..MaxLimit},
     offset : {Nothing} \cup {Some(n) : n \in 0..MaxLimit},
     order_by : {Nothing, Some(""), Some("key")},
     order_by_type : {Nothing, Some("ASC"), Some("DESC")}]
SomeWhere == "where"

InitFn == InitWith({db \in CrudDbs : Cardinality(db[T].rows) = 1})

\* One application of a helper: a helper is a function of its arguments, so a
\* behaviour applies one helper to one input.
Applied(name, form, q, arg, res) ==
    /\ fn' = [name |-> name, form |-> form, query |-> q, arg |-> arg,
              thrown |-> res.thrown, after |-> res.query, options |-> res.options,
              again |-> Nothing]
    /\ UNCHANGED <<tables, pc, mode, data, dedup, i, result, r, thrown, caught, inflight, ormlog, pre, crud, other, before>>

FindOptions ==
    /\ fn = NoFn
    /\ \E q \in Queries, fallback \in {Nothing, Some("id")} :
           Applied("findOptions", "class", q, fallback, findOptions(q, SomeWhere, fallback))

FreeFindOptionsCall ==
    /\ fn = NoFn
    /\ \E q \in Queries :
           Applied("findOptions", "free", q, Some("id"), FreeFindOptions(q, SomeWhere, "id"))

FindOneOptions ==
    /\ fn = NoFn
    /\ \E q \in Queries :
           Applied("findOneOptions", "class", q, Nothing, findOneOptions(q, SomeWhere))

FreeFindOneOptionsCall ==
    /\ fn = NoFn
    /\ \E q \in Queries :
           Applied("findOneOptions", "free", q, Nothing, FreeFindOneOptions(q, SomeWhere))

\* The caller applies the same helper a second time, to the same query object
\* (as the first call left it), the same where-clause and the same column.
CalledAgain ==
    /\ fn.name \in {"findOptions", "findOneOptions"}
    /\ fn.again = Nothing
    /\ LET q == fn.after
           res == CASE fn.name = "findOptions" /\ fn.form = "class" -> findOptions(q, SomeWhere, fn.arg)
                    [] fn.name = "findOptions" /\ fn.form = "free" -> FreeFindOptions(q, SomeWhere, fn.arg[1])
                    [] fn.name = "findOneOptions" /\ fn.form = "class" -> findOneOptions(q, SomeWhere)
                    [] fn.name = "findOneOptions" /\ fn.form = "free" -> FreeFindOneOptions(q, SomeWhere)
       IN  fn' = [fn EXCEPT !.again = Some(res)]
    /\ UNCHANGED <<tables, pc, mode, data, dedup, i, result, r, thrown, caught, inflight, ormlog, pre, crud, other, before>>

(***************************************************************************)
(* The read operations findOne, findAll, count, sum and avg, and the       *)
(* option wrappers of TypeOrm.ts they normalise their options with         *)
(***************************************************************************)
\* {[pk]: MoreThan(0)}
PkWhere == "id > 0"
\* the select expressions of sum and avg for the metric val
SumSelect == "SUM(val) as sum"
AvgSelect == "AVG(val) as average"

handleEmptyOptions(o) ==
    IF o = Nothing
    THEN [select |-> Undef, relations |-> Undef, where |-> Some(PkWhere),
          order |-> Some([col |-> "created_at", dir |-> "DESC"])]
    ELSE o[1]

handleEmptyWhere(o) == IF o.where = Nothing THEN [o EXCEPT !.where = Some(PkWhere)] ELSE o

handleEmptyRelations(o) ==
    IF o.relations = Undef THEN [o EXCEPT !.relations = ArrOf(RelationList)] ELSE o

filterKeepingAll(o) == o

filterOutInvalidSelectValues(o) ==
    IF Truthy(o.select)
    THEN [o EXCEPT !.select = ArrOf(SelectSeq(@.parts, LAMBDA select : select \in Columns))]
    ELSE o

findAllOptionsWrapper(o) ==
    filterOutInvalidSelectValues(handleEmptyRelations(handleEmptyWhere(handleEmptyOptions(o))))

findOneOptionsWrapper(o) ==
    filterOutInvalidSelectValues(handleEmptyRelations(handleEmptyOptions(o)))

\* What the repository is called with.
FindCall(method, o) ==
    [method |-> method, select |-> o.select, relations |-> o.relations, where |-> o.where,
     order |-> o.order]
BuilderCall(o, expr) ==
    [method |-> "createQueryBuilder", select |-> ArrOf(<<expr>>), relations |-> Undef,
     where |-> o.where, order |-> Nothing]

\* The options a caller hands to a read operation: none, or a select list of
\* declared and undeclared ("zz") names, a where-clause and relations, each
\* given or not.
GivenOptions ==
    {Nothing} \cup
    {Some(o) : o \in [select : {Undef} \cup {ArrOf(l) : l \in SeqsUpTo(Columns \cup {"zz"}, MaxSel)},
                      relations : {Undef, ArrOf(<<>>)},
                      where : {Nothing, Some(SomeWhere)},
                      order : {Nothing}]}

Read(name, o, normal, orm) ==
    /\ fn' = [name |-> name, given |-> o, normal |-> normal, orm |-> orm, thrown |-> NoThrow]
    /\ UNCHANGED <<tables, pc, mode, data, dedup, i, result, r, thrown, caught, inflight, ormlog, pre, crud, other, before>>

FindOne ==
    /\ fn = NoFn
    /\ \E o \in GivenOptions :
           LET n == findOneOptionsWrapper(o) IN Read("findOne", o, n, FindCall("findOne", n))

FindAll ==
    /\ fn = NoFn
    /\ \E o \in GivenOptions :
           LET n == findAllOptionsWrapper(o) IN Read("findAll", o, n, FindCall("find", n))

Count ==
    /\ fn = NoFn
    /\ \E o \in GivenOptions :
           LET n == findAllOptionsWrapper(o) IN Read("count", o, n, FindCall("count", n))

Sum ==
    /\ fn = NoFn
    /\ \E o \in GivenOptions :
           LET n == findAllOptionsWrapper(o) IN Read("sum", o, n, BuilderCall(n, SumSelect))

Avg ==
    /\ fn = NoFn
    /\ \E o \in GivenOptions :
           LET n == findAllOptionsWrapper(o) IN Read("avg", o, n, BuilderCall(n, AvgSelect))

OptionsNext ==
    \/ FindOptions
    \/ FreeFindOptionsCall
    \/ FindOneOptions
    \/ FreeFindOneOptionsCall
    \/ CalledAgain
    \/ FindOne
    \/ FindAll
    \/ Count
    \/ Sum
    \/ Avg

SpecOptions == InitFn /\ [][OptionsNext]_vars

\* C11: findOptions, in the class form and in the free-function form, returns
\* take = 20 when the query has no limit and skip = 0 when it has no offset,
\* and returns a supplied limit or offset unchanged.
C11_TakeAndSkipDefaults ==
    (fn.name = "findOptions" /\ fn.options # Nothing) =>
        /\ fn.options[1].take = IF fn.query.limit = Nothing THEN 20 ELSE fn.query.limit[1]
        /\ fn.options[1].skip = IF fn.query.offset = Nothing THEN 0 ELSE fn.query.offset[1]

C11_Witness ==
    /\ fn.name = "findOptions"
    /\ fn.form = "free"
    /\ fn.query.limit = Nothing
    /\ fn.query.offset = Some(2)
    /\ fn.options # Nothing
    /\ fn.options[1].take = 20
    /\ fn.options[1].skip = 2

\* C12: without order_by, findOptions (class form and free-function form)
\* sorts by the caller's fallback column in descending order; with order_by it
\* sorts by that column with the given order type.
C12_FallbackOrderDescending ==
    (fn.name = "findOptions" /\ fn.options # Nothing) =>
        IF TruthyStr(fn.query.order_by)
        THEN /\ fn.options[1].order.col = fn.query.order_by[1]
             /\ fn.query.order_by_type # Nothing =>
                    fn.options[1].order.dir = fn.query.order_by_type[1]
        ELSE fn.arg # Nothing =>
                fn.options[1].order = [col |-> fn.arg[1], dir |-> "DESC"]

ReadNames == {"findOne", "findAll", "count", "sum", "avg"}
GaveSelectList == fn.name \in ReadNames /\ fn.given # Nothing /\ fn.given[1].select.t = "arr"
DeclaredOf(l) == SelectSeq(l, LAMBDA s : s \in {"id", "key", "val"})

\* C13 as stated: given a select list, the options findOne, findAll, count, sum
\* and avg pass to the ORM hold exactly the declared-column entries of the
\* list, in their original order, and nothing is thrown.
C13_SelectFilteredInAllReads ==
    GaveSelectList =>
        /\ fn.thrown = NoThrow
        /\ fn.orm.select = ArrOf(DeclaredOf(fn.given[1].select.parts))

\* C13 amended: every read operation normalises the select list to its
\* declared-column entries in their original order and throws nothing;
\* findOne, findAll and count pass that list to the ORM, while sum and avg
\* pass only the where-clause of the normalised options to the query builder
\* and select the aggregate expression alone.
C13_SelectFilteredWherePassed ==
    GaveSelectList =>
        /\ fn.thrown = NoThrow
        /\ fn.normal.select = ArrOf(DeclaredOf(fn.given[1].select.parts))
        /\ fn.orm.where = fn.normal.where
        /\ IF fn.name \in {"sum", "avg"}
           THEN /\ fn.orm.method = "createQueryBuilder"
                /\ Len(fn.orm.select.parts) = 1
                /\ fn.orm.select.parts[1] \notin {"id", "key", "val", "zz"}
           ELSE fn.orm.select = fn.normal.select

C13_Witness ==
    /\ fn.name = "findAll"
    /\ fn.given # Nothing
    /\ fn.given[1].select = ArrOf(<<"key", "zz", "id">>)
    /\ fn.orm.method = "find"
    /\ fn.orm.select = ArrOf(<<"key", "id">>)
    /\ fn.thrown = NoThrow

(***************************************************************************)
(* The filter builder: Query.buildWhere, with splitStringByFirstColon,     *)
(* mapComparisonOperatorToTypeORMFindOperators and createWhereRelations    *)
(*                                                                         *)
(* A string is the sequence of its pieces, ":" and " " being pieces of     *)
(* their own: "gt:10" is <<"gt", ":", "10">>.  A key is the sequence of    *)
(* its dot-separated segments: "owner.key" is <<"owner", "key">>.          *)
(***************************************************************************)
MaxEntries == 2     \* most filter keys in one query

\* A query value: one string, or an array of strings.
One(s) == [t |-> "str", v |-> <<s>>]
Many(l) == [t |-> "arr", v |-> l]

EmptyObj == [k \in {} |-> k]

\* What a where-clause holds for a field: a find operator (op, with its
\* value in v when it has one), And(...args), a relation's nested object
\* (sub), or the raw query value ("value": a string, "values": an array).
Cond(op, v) == [op |-> op, v |-> v, args |-> <<>>, sub |-> EmptyObj]
And(args) == [op |-> "And", v |-> <<>>, args |-> args, sub |-> EmptyObj]
Nested(obj) == [op |-> "nested", v |-> <<>>, args |-> <<>>, sub |-> obj]
Raw(x) == Cond(IF x.t = "str" THEN "value" ELSE "values", x.v)
Like(s) == Cond("Like", <<(<<"%">> \o s) \o <<"%">>>>)

\* The members of the ComparisonOperator enum of @juicyllama/utils that the
\* switch names; each member's value is taken to be its name.
ComparisonOperator ==
    [k \in {"GT", "GTE", "LT", "LTE", "EQ", "NE", "IS", "NNULL"} |-> <<k>>]
\* Enums.getKeyName(ComparisonOperator, v), v possibly undefined
getKeyName(v) ==
    IF v # Nothing /\ \E k \in DOMAIN ComparisonOperator : ComparisonOperator[k] = v[1]
    THEN Some(CHOOSE k \in DOMAIN ComparisonOperator : ComparisonOperator[k] = v[1])
    ELSE Nothing

\* The characters of a piece are the ASCII characters and, written as
\* \uXXXX (a backslash of the text as \u005C), the Latin-1 characters
\* \u0080 .. \u00FF and the characters of SpecialUpper: the non-ASCII
\* characters whose upper case holds a letter A..Z, which are dotless i,
\* long s and the characters that Unicode's SpecialCasing maps to more than
\* one character (sharp s, n with apostrophe, j with caron, h t w y a with
\* their marks, the ff .. st ligatures).
SpecialUpper ==
    ("0131" :> "I") @@ ("017F" :> "S") @@ ("00DF" :> "SS") @@
    ("0149" :> "\\u02BCN") @@ ("01F0" :> "J\\u030C") @@
    ("1E96" :> "H\\u0331") @@ ("1E97" :> "T\\u0308") @@ ("1E98" :> "W\\u030A") @@
    ("1E99" :> "Y\\u030A") @@ ("1E9A" :> "A\\u02BE") @@
    ("FB00" :> "FF") @@ ("FB01" :> "FI") @@ ("FB02" :> "FL") @@ ("FB03" :> "FFI") @@
    ("FB04" :> "FFL") @@ ("FB05" :> "ST") @@ ("FB06" :> "ST")

LowerLetters == "abcdefghijklmnopqrstuvwxyz"
UpperLetters == "ABCDEFGHIJKLMNOPQRSTUVWXYZ"

\* The upper case of the character \uXXXX with the hexadecimal code given.
\* Latin-1: \u00E0 .. \u00FE but the division sign \u00F7 are 32 below in
\* upper case, y with diaeresis and the micro sign lie elsewhere.
UpperEscaped(code) ==
    IF code \in DOMAIN SpecialUpper THEN SpecialUpper[code]
    ELSE IF code = "00FF" THEN "\\u0178"
    ELSE IF code = "00B5" THEN "\\u039C"
    ELSE IF SubSeq(code, 1, 2) = "00" /\ SubSeq(code, 3, 3) \in {"E", "F"} /\ code # "00F7"
    THEN ("\\u00" \o (IF SubSeq(code, 3, 3) = "E" THEN "C" ELSE "D")) \o SubSeq(code, 4, 4)
    ELSE "\\u" \o code

\* The upper case of an ASCII character.
UpperAscii(c) ==
    IF \E k \in 1..Len(LowerLetters) : SubSeq(LowerLetters, k, k) = c
    THEN LET k == CHOOSE k \in 1..Len(LowerLetters) : SubSeq(LowerLetters, k, k) = c
         IN  SubSeq(UpperLetters, k, k)
    ELSE c

\* String.prototype.toUpperCase on one piece, character by character: a
\* letter a..z becomes A..Z, a lower-case letter of Latin-1 or a character
\* of SpecialUpper becomes its upper case, every other character stays.
RECURSIVE UpperPiece(_)
UpperPiece(p) ==
    IF Len(p) = 0 THEN ""
    ELSE IF SubSeq(p, 1, 1) = "\\"
    THEN UpperEscaped(SubSeq(p, 3, 6)) \o UpperPiece(SubSeq(p, 7, Len(p)))
    ELSE UpperAscii(SubSeq(p, 1, 1)) \o UpperPiece(SubSeq(p, 2, Len(p)))
toUpperCase(s) == [n \in 1..Len(s) |-> UpperPiece(s[n])]

\* The switch over the operator; its default branch throws (op "throw": v is
\* the Error thrown).  buildWhere passes ComparisonOperator[opKeyName], a
\* member of the enum, so it reaches the default branch for no input.
mapComparisonOperatorToTypeORMFindOperators(op, value) ==
    CASE op = "GT" -> Cond("MoreThan", value)
      [] op = "GTE" -> Cond("MoreThanOrEqual", value)
      [] op = "LT" -> Cond("LessThan", value)
      [] op = "LTE" -> Cond("LessThanOrEqual", value)
      [] op = "EQ" -> Cond("Equal", value)
      [] op = "NE" -> Cond("NotEqual", value)
      [] op = "IS" -> Cond("IsNull", <<>>)
      [] op = "NNULL" -> Cond("NotIsNull", <<>>)
      [] OTHER -> Cond("throw", Err(<<"Unsupported", "operator", op>>))

\* s.indexOf(':'), counting pieces from 1; 0 when s has no colon
indexOf(s) ==
    IF \E n \in 1..Len(s) : s[n] = ":"
    THEN CHOOSE n \in 1..Len(s) : s[n] = ":" /\ \A m \in 1..(n - 1) : s[m] # ":"
    ELSE 0

splitStringByLastColon(s) ==
    LET last == IF indexOf(s) = 0 THEN 0
                ELSE CHOOSE n \in 1..Len(s) : s[n] = ":" /\ \A m \in (n + 1)..Len(s) : s[m] # ":"
    IN  IF last # 0 THEN <<SubSeq(s, 1, last - 1), SubSeq(s, last + 1, Len(s))>> ELSE <<s>>

splitStringByFirstColon(s) ==
    LET indexOfFirstColon == indexOf(s)
    IN  IF indexOfFirstColon # 0
        THEN <<SubSeq(s, 1, indexOfFirstColon - 1), SubSeq(s, indexOfFirstColon + 1, Len(s))>>
        ELSE <<s>>

\* const [operator, lookupValue] = splitStringByFirstColon(currentValue), and opKeyName
OpKeyName(currentValue) ==
    LET operator == splitStringByFirstColon(currentValue)[1]
        byValue == getKeyName(Some(toUpperCase(operator)))
        whole == toUpperCase(currentValue)
        \* ComparisonOperator[currentValue.toUpperCase()]: the member of that name, or undefined
        member == IF Len(whole) = 1 /\ whole[1] \in DOMAIN ComparisonOperator
                  THEN Some(ComparisonOperator[whole[1]]) ELSE Nothing
    IN  IF byValue # Nothing THEN byValue ELSE getKeyName(member)

LookupValue(currentValue) ==
    LET parts == splitStringByFirstColon(currentValue)
    IN  IF Len(parts) > 1 THEN <<parts[2]>> ELSE <<>>

\* The reducer: a value that names no operator adds nothing to the list.
RECURSIVE FieldLookupWhere(_)
FieldLookupWhere(values) ==
    IF values = <<>> THEN <<>>
    ELSE LET memo == FieldLookupWhere(SubSeq(values, 1, Len(values) - 1))
             currentValue == values[Len(values)]
             opKeyName == OpKeyName(currentValue)
         IN  IF opKeyName # Nothing
             THEN Append(memo, mapComparisonOperatorToTypeORMFindOperators(
                                   opKeyName[1], LookupValue(currentValue)))
             ELSE memo

QueryValue(value) ==
    LET fieldLookupWhere == FieldLookupWhere(value.v)
    IN  IF Len(fieldLookupWhere) = 1 THEN fieldLookupWhere[1]
        ELSE IF Len(fieldLookupWhere) > 0 THEN And(fieldLookupWhere)
        ELSE Raw(value)

RECURSIVE NestUnder(_, _)
NestUnder(keys, value) ==
    IF Len(keys) = 1 THEN keys[1] :> value
    ELSE keys[1] :> Nested(NestUnder(Tail(keys), value))

createWhereRelations(keys, value, relations) ==
    IF keys[1] \notin Range(relations) THEN EmptyObj ELSE NestUnder(keys, value)

\* The loop without its test that the key is a column or a relation.
RECURSIVE WhereBaseUnchecked(_)
WhereBaseUnchecked(entries) ==
    IF entries = <<>> THEN EmptyObj
    ELSE LET whereBase == WhereBaseUnchecked(SubSeq(entries, 1, Len(entries) - 1))
             key == entries[Len(entries)].key
             value == entries[Len(entries)].value
         IN  IF Len(key) > 1
             THEN createWhereRelations(key, QueryValue(value), RelationList) @@ whereBase
             ELSE (key[1] :> QueryValue(value)) @@ whereBase

\* The loop over Object.entries(options.query); {...a, ...b} is b @@ a.
RECURSIVE WhereBase(_)
WhereBase(entries) ==
    IF entries = <<>> THEN EmptyObj
    ELSE LET whereBase == WhereBase(SubSeq(entries, 1, Len(entries) - 1))
             key == entries[Len(entries)].key
             value == entries[Len(entries)].value
             isRelation == Len(key) > 1
             k == key[1]
         IN  IF k \in Columns \/ k \in RelationNames
             THEN IF isRelation
                  THEN createWhereRelations(key, QueryValue(value), RelationList) @@ whereBase
                  ELSE (k :> QueryValue(value)) @@ whereBase
             ELSE whereBase

\* search.length === 1 && search[0] === 'undefined': of a string, [0] is its
\* first character, so only the one-element array ['undefined'] passes.
IsUndefinedMarker(x) ==
    x # Nothing /\ x[1].t = "arr" /\ Len(x[1].v) = 1 /\ x[1].v[1] = <<"undefined">>

\* !x : undefined and the empty string are falsy, every array is truthy
Present(x) == x # Nothing /\ (x[1].t = "arr" \/ x[1].v[1] # <<>>)

RECURSIVE join(_)
join(l) ==
    IF l = <<>> THEN <<>>
    ELSE IF Len(l) = 1 THEN l[1]
    ELSE (join(SubSeq(l, 1, Len(l) - 1)) \o <<" ">>) \o l[Len(l)]

WhereToMerge(field, searchValue) ==
    IF Len(field) > 1
    THEN createWhereRelations(field, Like(searchValue), RelationList)
    ELSE field[1] :> Like(searchValue)

\* Query.buildWhere: `list` tells whether it returned a list of alternatives
\* (alts) or the plain filter (the one member of alts); search and relations
\* are the query's properties as the call leaves them.
buildWhere(q, search_fields) ==
    LET whereBase == WhereBase(q.entries)
        search == IF IsUndefinedMarker(q.search) THEN Nothing ELSE q.search
        plain == ~Present(search) \/ search_fields = Nothing
        relations == IF ~plain /\ IsUndefinedMarker(q.relations) THEN Nothing ELSE q.relations
        searchValue == IF search[1].t = "arr" THEN join(search[1].v) ELSE search[1].v[1]
    IN  [base |-> whereBase,
         list |-> ~plain,
         alts |-> IF plain THEN <<whereBase>>
                  ELSE [n \in 1..Len(search_fields[1]) |->
                            WhereToMerge(search_fields[1][n], searchValue) @@ whereBase],
         search |-> search,
         relations |-> relations]

\* The queries and search fields buildWhere is applied to.
FilterEntries ==
    {e \in SeqsUpTo(
        [key : {<<"val">>, <<"owner", "key">>, <<"owner", "val">>, <<"ghost", "key">>, <<"zz">>},
         value : {One(<<"Gt", ":", "1", ":", "2">>), One(<<"x", ":", "1">>), One(<<"x">>),
                  Many(<<<<"Gt", ":", "1", ":", "2">>, <<"x">>>>),
                  Many(<<<<"gt", ":", "1">>, <<"lt", ":", "2">>>>)}],
        MaxEntries) :
        \A m, n \in 1..Len(e) : m # n => e[m].key # e[n].key}
\* The spellings of a name: each letter in upper or in lower case, I also
\* as dotless i and S also as long s.
RECURSIVE Spellings(_)
Spellings(name) ==
    IF Len(name) = 0 THEN {""}
    ELSE LET c == SubSeq(name, 1, 1)
             k == CHOOSE k \in 1..Len(UpperLetters) : SubSeq(UpperLetters, k, k) = c
             forms == {c, SubSeq(LowerLetters, k, k)}
                        \cup (IF c = "I" THEN {"\\u0131"} ELSE {})
                        \cup (IF c = "S" THEN {"\\u017F"} ELSE {})
         IN  {x \o rest : x \in forms, rest \in Spellings(SubSeq(name, 2, Len(name)))}

\* One filter on the column val for every spelling of every operator name,
\* with a value that holds a colon.
OperatorNames == {"GT", "GTE", "LT", "LTE", "EQ", "NE", "IS", "NNULL"}
OperatorEntries ==
    {<<[key |-> <<"val">>, value |-> One(<<p, ":", "1", ":", "2">>)]>> :
        p \in UNION {Spellings(n) : n \in OperatorNames}}

NoSearch == [search |-> Nothing, relations |-> Nothing, fields |-> Nothing]
Searches ==
    {NoSearch,
     [search |-> Nothing, relations |-> Some(Many(<<<<"undefined">>>>)), fields |-> Some(<<<<"val">>>>)],
     [search |-> Some(One(<<"undefined">>)), relations |-> Nothing, fields |-> Some(<<<<"val">>>>)],
     [search |-> Some(Many(<<<<"undefined">>>>)), relations |-> Nothing, fields |-> Some(<<<<"val">>>>)],
     [search |-> Some(One(<<"a">>)), relations |-> Some(Many(<<<<"undefined">>>>)), fields |-> Some(<<<<"key">>>>)],
     [search |-> Some(Many(<<<<"a">>, <<"b">>>>)), relations |-> Nothing, fields |-> Some(<<<<"val">>, <<"owner", "key">>>>)],
     [search |-> Some(One(<<"a">>)), relations |-> Nothing, fields |-> Some(<<<<"key">>, <<"ghost", "key">>>>)],
     [search |-> Some(One(<<"a">>)), relations |-> Nothing, fields |-> Some(<<>>)],
     [search |-> Some(One(<<"a">>)), relations |-> Nothing, fields |-> Nothing],
     [search |-> Some(One(<<>>)), relations |-> Nothing, fields |-> Some(<<<<"key">>>>)]}

Built(e, s) ==
    LET q == [entries |-> e, search |-> s.search, relations |-> s.relations]
        w == buildWhere(q, s.fields)
    IN  /\ fn' = [name |-> "buildWhere", query |-> q, search_fields |-> s.fields,
                  base |-> w.base, list |-> w.list, alts |-> w.alts,
                  search |-> w.search, relations |-> w.relations]
        /\ UNCHANGED <<tables, pc, mode, data, dedup, i, result, r, thrown, caught,
                       inflight, ormlog, pre, crud, other, before>>

BuildWhere ==
    /\ fn = NoFn
    /\ \/ \E e \in FilterEntries, s \in Searches : Built(e, s)
       \/ \E e \in OperatorEntries : Built(e, NoSearch)

WhereNext == BuildWhere

SpecWhere == InitFn /\ [][WhereNext]_vars

\* A call of buildWhere that returned the plain filter, and that filter.
GavePlain == fn.name = "buildWhere" /\ ~fn.list
Clause == fn.alts[1]
DeclaredColumn(key) == Len(key) = 1 /\ key[1] \in {"id", "key", "val"}
\* The operator a prefix names in any letter case, and its comparison.
OperatorNamed(p) ==
    IF \E n \in OperatorNames : p \in Spellings(n)
    THEN CHOOSE n \in OperatorNames : p \in Spellings(n)
    ELSE "none"
ComparisonOf(p) ==
    CASE OperatorNamed(p) = "GT" -> "MoreThan"
      [] OperatorNamed(p) = "GTE" -> "MoreThanOrEqual"
      [] OperatorNamed(p) = "LT" -> "LessThan"
      [] OperatorNamed(p) = "LTE" -> "LessThanOrEqual"
      [] OperatorNamed(p) = "EQ" -> "Equal"
      [] OperatorNamed(p) = "NE" -> "NotEqual"
      [] OperatorNamed(p) = "IS" -> "IsNull"
      [] OperatorNamed(p) = "NNULL" -> "NotIsNull"
      [] OTHER -> "none"
\* s is operator:value with a recognised comparison operator before the first colon
IsComparison(s) == Len(s) >= 2 /\ s[2] = ":" /\ ComparisonOf(s[1]) # "none"

\* The filters operator:value on a declared column of the call made.
OperatorFilters ==
    {n \in 1..Len(fn.query.entries) :
        /\ DeclaredColumn(fn.query.entries[n].key)
        /\ fn.query.entries[n].value.t = "str"
        /\ IsComparison(fn.query.entries[n].value.v[1])}

MatchesLiteral(c, s) ==
    \/ c.op \in {"value", "values", "Equal"} /\ \E n \in 1..Len(c.v) : c.v[n] = s
    \/ c.op = "And" /\ \E n \in 1..Len(c.args) :
            c.args[n].op \in {"value", "Equal"} /\ c.args[n].v = <<s>>

\* C15: a filter value with no colon, or with an unrecognised prefix before
\* its first colon, is an equality literal on the whole string, and this
\* holds for each value of a multi-valued filter: none is dropped.
C15_UnrecognisedValuesAreLiterals ==
    GavePlain =>
        \A n \in 1..Len(fn.query.entries) :
            LET e == fn.query.entries[n]
            IN  DeclaredColumn(e.key) =>
                    \A m \in 1..Len(e.value.v) :
                        ~IsComparison(e.value.v[m]) =>
                            /\ e.key[1] \in DOMAIN Clause
                            /\ MatchesLiteral(Clause[e.key[1]], e.value.v[m])

\* C16: a dotted key relation.field yields {relation: {field: value}} when
\* relation is declared and nothing when it is not, and the constraints of
\* the other keys of the query are as they are without it.
C16_DottedKeysNestAndLeaveOthers ==
    GavePlain =>
        \A n \in 1..Len(fn.query.entries) :
            LET e == fn.query.entries[n]
            IN  /\ (Len(e.key) = 2 /\ e.key[1] = "owner") =>
                        /\ "owner" \in DOMAIN Clause
                        /\ Clause["owner"].op = "nested"
                        /\ e.key[2] \in DOMAIN Clause["owner"].sub
                        /\ Clause["owner"].sub[e.key[2]] = QueryValue(e.value)
                /\ (Len(e.key) = 2 /\ e.key[1] # "owner") => e.key[1] \notin DOMAIN Clause
                /\ DeclaredColumn(e.key) =>
                        /\ e.key[1] \in DOMAIN Clause
                        /\ Clause[e.key[1]] = QueryValue(e.value)

\* A call of buildWhere with a search term and search fields.
Searched ==
    /\ fn.name = "buildWhere"
    /\ fn.search_fields # Nothing
    /\ Len(fn.search_fields[1]) > 0
    /\ fn.query.search # Nothing
    /\ fn.query.search[1] \notin {One(<<>>), One(<<"undefined">>), Many(<<<<"undefined">>>>)}

\* C17: with a search term and search fields the result is a list with one
\* alternative per search field, a substring match of the term on that
\* field, and every constraint of the non-search filter is present,
\* unchanged, in every alternative: the filter is never lost.
C17_SearchKeepsFilter ==
    Searched =>
        /\ fn.list
        /\ Len(fn.alts) = Len(fn.search_fields[1])
        /\ \A n \in 1..Len(fn.alts) :
            /\ (Len(fn.search_fields[1][n]) = 1 \/ fn.search_fields[1][n][1] = "owner") =>
                    fn.search_fields[1][n][1] \in DOMAIN fn.alts[n]
            /\ \A k \in DOMAIN fn.base : k \in DOMAIN fn.alts[n] /\ fn.alts[n][k] = fn.base[k]

\* C18: the literal string "undefined" as search, or as relations, is
\* treated as absent: the result is the plain non-search filter, as for a
\* query without that key.
C18_UndefinedIsAbsent ==
    fn.name = "buildWhere" =>
        /\ (fn.query.search # Nothing /\
            fn.query.search[1] \in {One(<<"undefined">>), Many(<<<<"undefined">>>>)}) =>
                ~fn.list /\ fn.alts = <<fn.base>>
        /\ IsUndefinedMarker(fn.query.relations) =>
            LET without == buildWhere([fn.query EXCEPT !.relations = Nothing], fn.search_fields)
            IN  fn.list = without.list /\ fn.alts = without.alts

\* C19: the bulk result is an accumulator changed once per input row: at
\* every point of a pass in any mode processed <= total; every processed row
\* was counted in exactly one of created, updated, deleted and errored, or,
\* in DELETE with no match, in none, so their sum is at most processed;
\* errors holds one message per errored row (it is absent only while none
\* errored) and ids one id per row counted as created or updated.
C19_AccumulatorCountsEachRowOnce ==
    result.def =>
        LET counted == result.created + result.updated + result.deleted + result.errored
        IN  /\ result.total = Len(data)
            /\ result.processed <= result.total
            /\ counted <= result.processed
            /\ mode # "DELETE" => counted = result.processed
            /\ Len(result.errors) = result.errored
            /\ ~result.errorsDef => result.errored = 0
            /\ Len(result.ids) = result.created + result.updated

C19_Witness ==
    /\ result.def
    /\ mode = "UPSERT"
    /\ ~Ended
    /\ result.total = 2
    /\ result.processed = 1
    /\ result.updated = 1
    /\ Len(result.ids) = 1
    /\ Len(result.errors) = 0

\* C20: in REPOPULATE, from the start of the truncate to the end of the
\* call, the rows the live table held before the call exist in the snapshot
\* table or in the live table, the snapshot being dropped only after the
\* bulk-create inserted every input row without error.
C20_SnapshotKeptUntilAllInserted ==
    (mode = "REPOPULATE" /\ CallsOf("DELETE FROM t") # {}) =>
        \/ tables[TCopy].exists /\ pre \subseteq tables[TCopy].rows
        \/ tables[T].exists /\ pre \subseteq tables[T].rows
        \/ /\ \E n \in CallsOf("DROP t_COPY") : \E m \in CallsOf("DELETE FROM t") : m < n
           /\ result.def
           /\ result.errored = 0
           /\ result.processed = result.total

(***************************************************************************)
(* C21: a bulk call that processed its rows returns the result summary,    *)
(* rows that failed included; the one exception is a REPOPULATE call that  *)
(* took the restore path, which after restoring the table ends with the    *)
(* error 'Failed to upsert' and returns no summary.                        *)
(* The code does not do this: the summary is assigned before the snapshot  *)
(* is dropped, so after a completed restore the call returns it.           *)
(***************************************************************************)
C21_RestorePathEndsFailed ==
    (Ended /\ result.def /\ result.processed = result.total) =>
        IF mode = "REPOPULATE" /\ CallsOf("RENAME") # {}
        THEN OkOf("DROP t_DELETE") # {} => (pc = "thrown" /\ thrown = Err(FailedMsg))
        ELSE pc = "returned"

(***************************************************************************)
(* C22: when two bulk REPOPULATE calls on the same table interleave their  *)
(* steps, the snapshot taken by one is not dropped or overwritten by the   *)
(* other while the first may still restore from it: whenever the RENAME of *)
(* a restore succeeds, the snapshot it renames into place holds the rows   *)
(* the live table had before either call truncated it.                     *)
(* The code does not do this: both calls use the one table t_COPY.         *)
(***************************************************************************)
C22_RestoredSnapshotIsOriginal ==
    [][(/\ mode = "REPOPULATE"
        /\ other.mode = "REPOPULATE"
        /\ other.pc # "idle"
        /\ pc = "restore_rename"
        /\ other' = other
        /\ ormlog' = Append(ormlog, SettleEv("RENAME", 0, NoThrow)))
            => (tables[TCopy].exists /\ tables[TCopy].rows = before)]_vars

(***************************************************************************)
(* C23: findOptions and findOneOptions, in the class form and in the       *)
(* free-function form, leave their query argument unchanged, so calling    *)
(* them twice with the same query object and where-clause succeeds both    *)
(* times and returns equal option structures.                              *)
(* The free functions do not: they write the split lists into the query.   *)
(***************************************************************************)
C23_QueryUnchangedAndRepeatable ==
    (fn.name \in {"findOptions", "findOneOptions"} /\ fn.again # Nothing) =>
        /\ fn.after = fn.query
        /\ fn.again[1].query = fn.query
        /\ fn.thrown = NoThrow
        /\ fn.again[1].thrown = NoThrow
        /\ fn.again[1].options = fn.options

\* An entry of the query whose key, or the first dotted segment of it, is a
\* column or a relation the repository declares.
NamesDeclared(e) == e.key[1] \in {"id", "key", "val", "owner"}

(***************************************************************************)
(* C24: every top-level key of the where-clause buildWhere makes from the  *)
(* query's filter entries is a declared column or a declared relation: an  *)
(* entry whose key (or whose first dotted segment) names neither is        *)
(* ignored, and the other entries are translated as if it were absent.     *)
(***************************************************************************)
C24_OnlyDeclaredKeysInWhere ==
    fn.name = "buildWhere" =>
        /\ DOMAIN fn.base \subseteq {"id", "key", "val", "owner"}
        /\ \A k \in DOMAIN fn.base :
            LET last == CHOOSE n \in 1..Len(fn.query.entries) :
                            /\ fn.query.entries[n].key[1] = k
                            /\ \A m \in (n + 1)..Len(fn.query.entries) :
                                    fn.query.entries[m].key[1] # k
                e == fn.query.entries[last]
            IN  /\ \E n \in 1..Len(fn.query.entries) : fn.query.entries[n].key[1] = k
                /\ fn.base[k] = IF Len(e.key) = 1 THEN QueryValue(e.value)
                                ELSE Nested(e.key[2] :> QueryValue(e.value))
        /\ \A n \in 1..Len(fn.query.entries) :
            ~NamesDeclared(fn.query.entries[n]) => fn.query.entries[n].key[1] \notin DOMAIN fn.base
        /\ ~fn.list => fn.alts = <<fn.base>>

C24_Witness ==
    /\ fn.name = "buildWhere"
    /\ ~fn.list
    /\ Len(fn.query.entries) = 2
    /\ fn.query.entries[1].key = <<"ghost", "key">>
    /\ fn.query.entries[2] = [key |-> <<"val">>, value |-> One(<<"x">>)]
    /\ fn.alts = <<"val" :> Raw(One(<<"x">>))>>

====
